---- MODULE Spec2Model ----
(***************************************************************************)
(* Model of zero/training.py (ProgressTracker, evaluate, learn) and of the *)
(* optimizer wrapper exercised by zero/tests/test_optim.py.                *)
(***************************************************************************)
EXTENDS Integers, Naturals, Sequences, FiniteSets, TLC

\* ---------------------------------------------------------------- bounds
MaxPatience == 2
MaxScore == 2
MaxDelta == 1
MaxOps == 5
MaxDepth == 2
MaxLearn == 2
MaxBlocks == 2
MaxGrad == 2

\* ------------------------------------------------------ Optional values
\* Optional[T] is a sequence: << >> is None, <<v>> is the value v.
None == << >>
Some(v) == <<v>>

Patiences == {None} \cup {Some(p) : p \in 0..MaxPatience}
\* float(min_delta) and the scores: small integers, which floats hold exactly
MinDeltas == (0 - MaxDelta)..MaxDelta
Scores == 0..MaxScore

\* ------------------------------------------------------------- _Status
NEUTRAL == "NEUTRAL"
SUCCESS == "SUCCESS"
FAIL == "FAIL"

VARIABLES
    patience,      \* ProgressTracker._patience
    min_delta,     \* ProgressTracker._min_delta
    best_score,    \* ProgressTracker._best_score
    status,        \* ProgressTracker._status
    bad_counter,   \* ProgressTracker._bad_counter
    hist           \* the calls made on the tracker since construction

trackerVars == <<patience, min_delta, best_score, status, bad_counter, hist>>

VARIABLES
    training,      \* torch.nn.Module.training of each model
    grad_enabled,  \* torch.is_grad_enabled()
    ctx,           \* the evaluate(...) blocks entered and not yet left
    lastExit       \* how the step just taken left or refused a block

evalVars == <<training, grad_enabled, ctx, lastExit>>

VARIABLES
    lpc,           \* learn: the position in the function body
    ltraining,     \* learn: model.training
    lgrad,         \* learn: the gradient held by the model's parameter
    lparam,        \* learn: the model's parameter
    lout,          \* learn: out, the output of step(batch)
    lloss,         \* learn: the loss tensor and loss_value
    llog,          \* learn: the calls made by the current invocation
    lresult,       \* learn: the returned tuple, None before the return
    lbefore,       \* learn: parameter and gradient when learn was called
    lcalls         \* learn: the number of invocations so far

learnVars ==
    <<lpc, ltraining, lgrad, lparam, lout, lloss, llog, lresult, lbefore, lcalls>>

VARIABLES
    oparam,        \* zero optimizer: the parameter it updates
    ograd,         \* zero optimizer: the parameter's gradient
    oin,           \* zero optimizer: inside a with block
    osteps,        \* zero optimizer: calls of the underlying step() so far
    oentry,        \* zero optimizer: parameter and step count at block entry
    olast,         \* zero optimizer: how the last block was left
    oblocks,       \* zero optimizer: the number of blocks entered so far
    pparam,        \* plain optimizer: the parameter it updates
    pgrad,         \* plain optimizer: the parameter's gradient
    opc            \* the position of the code that drives both optimizers

optimVars ==
    <<oparam, ograd, oin, osteps, oentry, olast, oblocks, pparam, pgrad, opc>>

vars == <<trackerVars, evalVars, learnVars, optimVars>>

TrackerOnly == UNCHANGED <<evalVars, learnVars, optimVars>>

EvaluateOnly == UNCHANGED <<trackerVars, learnVars, optimVars>>

LearnOnly == UNCHANGED <<trackerVars, evalVars, optimVars>>

OptimOnly == UNCHANGED <<trackerVars, evalVars, learnVars>>


\* ------------------------------------------------------ ProgressTracker
TrackerInit ==
    /\ patience \in Patiences
    /\ min_delta \in MinDeltas
    /\ best_score = None
    /\ status = NEUTRAL
    /\ bad_counter = 0
    /\ hist = << >>

success == status = SUCCESS

fail == status = FAIL

\* the entry appended to hist by a call
Call(op, score, improved) ==
    [op |-> op, score |-> score, improved |-> improved,
     statusBefore |-> status, bestBefore |-> best_score,
     badBefore |-> bad_counter,
     patienceBefore |-> patience, deltaBefore |-> min_delta]

\* update: is the score an improvement (lines 172 and 174)
Improves(score) ==
    \/ best_score = None
    \/ score > best_score[1] + min_delta

\* faulty variants of the status rule: ">=" for ">", and None read as 0
BadStatusAtPatience(p, c) ==
    IF p # None /\ c >= p[1] THEN FAIL ELSE NEUTRAL

BadStatusNoneIsZero(p, c) ==
    IF c > (IF p = None THEN 0 ELSE p[1]) THEN FAIL ELSE NEUTRAL

\* update: the status after a bad update with counter c
BadStatus(p, c) ==
    IF p # None /\ c > p[1] THEN FAIL ELSE NEUTRAL

\* faulty variant: the bad counter survives a success
SetSuccessKeepsCounter(score) ==
    /\ best_score' = Some(score)
    /\ status' = SUCCESS
    /\ UNCHANGED bad_counter

SetSuccess(score) ==
    /\ best_score' = Some(score)
    /\ status' = SUCCESS
    /\ bad_counter' = 0

\* faulty variant: the comparison is turned round, the lower score wins
UpdateLowerIsBetter(score) ==
    /\ Len(hist) < MaxOps
    /\ IF best_score = None
       THEN SetSuccess(score)
       ELSE IF score < best_score[1] + min_delta
       THEN SetSuccess(score)
       ELSE /\ bad_counter' = bad_counter + 1
            /\ status' = BadStatus(patience, bad_counter + 1)
            /\ UNCHANGED best_score
    /\ hist' = Append(hist, Call("update", score, Improves(score)))
    /\ UNCHANGED <<patience, min_delta>>
    /\ TrackerOnly

\* faulty variant: ">=" for ">", a score equal to the threshold is a success
UpdateNonStrict(score) ==
    /\ Len(hist) < MaxOps
    /\ IF best_score = None
       THEN SetSuccess(score)
       ELSE IF score >= best_score[1] + min_delta
       THEN SetSuccess(score)
       ELSE /\ bad_counter' = bad_counter + 1
            /\ status' = BadStatus(patience, bad_counter + 1)
            /\ UNCHANGED best_score
    /\ hist' = Append(hist, Call("update", score, Improves(score)))
    /\ UNCHANGED <<patience, min_delta>>
    /\ TrackerOnly

Update(score) ==
    /\ Len(hist) < MaxOps
    /\ IF best_score = None
       THEN SetSuccess(score)
       ELSE IF score > best_score[1] + min_delta
       THEN SetSuccess(score)
       ELSE /\ bad_counter' = bad_counter + 1
            /\ status' = BadStatus(patience, bad_counter + 1)
            /\ UNCHANGED best_score
    /\ hist' = Append(hist, Call("update", score, Improves(score)))
    /\ UNCHANGED <<patience, min_delta>>
    /\ TrackerOnly

\* faulty variant: forget_bad_updates drops the best score as reset does
ForgetDropsBest ==
    /\ Len(hist) < MaxOps
    /\ bad_counter' = 0
    /\ status' = NEUTRAL
    /\ best_score' = None
    /\ hist' = Append(hist, Call("forget", 0, FALSE))
    /\ UNCHANGED <<patience, min_delta>>
    /\ TrackerOnly

\* faulty variant: the status survives forget_bad_updates
ForgetKeepsStatus ==
    /\ Len(hist) < MaxOps
    /\ bad_counter' = 0
    /\ hist' = Append(hist, Call("forget", 0, FALSE))
    /\ UNCHANGED <<patience, min_delta, best_score, status>>
    /\ TrackerOnly

ForgetBadUpdates ==
    /\ Len(hist) < MaxOps
    /\ bad_counter' = 0
    /\ status' = NEUTRAL
    /\ hist' = Append(hist, Call("forget", 0, FALSE))
    /\ UNCHANGED <<patience, min_delta, best_score>>
    /\ TrackerOnly

\* faulty variant: reset drops the best score only
ResetKeepsCounter ==
    /\ Len(hist) < MaxOps
    /\ best_score' = None
    /\ hist' = Append(hist, Call("reset", 0, FALSE))
    /\ UNCHANGED <<patience, min_delta, status, bad_counter>>
    /\ TrackerOnly

\* faulty variant: the best score survives reset
ResetKeepsBest ==
    /\ Len(hist) < MaxOps
    /\ bad_counter' = 0
    /\ status' = NEUTRAL
    /\ hist' = Append(hist, Call("reset", 0, FALSE))
    /\ UNCHANGED <<patience, min_delta, best_score>>
    /\ TrackerOnly

Reset ==
    /\ Len(hist) < MaxOps
    /\ bad_counter' = 0
    /\ status' = NEUTRAL
    /\ best_score' = None
    /\ hist' = Append(hist, Call("reset", 0, FALSE))
    /\ UNCHANGED <<patience, min_delta>>
    /\ TrackerOnly

DoUpdate == \E score \in Scores : Update(score)

\* a tracker as __init__ leaves it, for the patience and min_delta in use
FreshTracker == [best_score |-> None, status |-> NEUTRAL, bad_counter |-> 0]

\* the tracker t after the call c, by the methods' code
After(t, c) ==
    IF c.op = "update"
    THEN IF t.best_score = None \/ c.score > t.best_score[1] + min_delta
         THEN [best_score |-> Some(c.score), status |-> SUCCESS, bad_counter |-> 0]
         ELSE [best_score |-> t.best_score,
               status |-> BadStatus(patience, t.bad_counter + 1),
               bad_counter |-> t.bad_counter + 1]
    ELSE IF c.op = "forget"
    THEN [best_score |-> t.best_score, status |-> NEUTRAL, bad_counter |-> 0]
    ELSE [best_score |-> None, status |-> NEUTRAL, bad_counter |-> 0]

RECURSIVE RunFresh(_)
\* a freshly constructed tracker after the calls of h
RunFresh(h) ==
    IF h = << >> THEN FreshTracker
    ELSE After(RunFresh(SubSeq(h, 1, Len(h) - 1)), h[Len(h)])

TrackerNext ==
    \/ DoUpdate
    \/ ForgetBadUpdates
    \/ Reset

TrackerIdle ==
    /\ patience = None
    /\ min_delta = 0
    /\ best_score = None
    /\ status = NEUTRAL
    /\ bad_counter = 0
    /\ hist = << >>

\* ------------------------------------------------------------ evaluate
Models == {"a", "b"}

NoTraining == [m \in Models |-> FALSE]

NoExit ==
    [how |-> "none", exc |-> "none", models |-> {}, gradBefore |-> FALSE,
     trainBefore |-> NoTraining, touched |-> FALSE]

EvalInit ==
    /\ training \in [Models -> BOOLEAN]
    /\ grad_enabled \in BOOLEAN
    /\ ctx = << >>
    /\ lastExit = NoExit

EvalIdle ==
    /\ training = NoTraining
    /\ grad_enabled = TRUE
    /\ ctx = << >>
    /\ lastExit = NoExit

\* every open block has seen the body change a mode
Touch(c) == [i \in 1..Len(c) |-> [c[i] EXCEPT !.touched = TRUE]]

\* user code: model.train(mode), inside or outside a block
ModelTrain(m, mode) ==
    /\ training' = [training EXCEPT ![m] = mode]
    /\ ctx' = Touch(ctx)
    /\ lastExit' = NoExit
    /\ UNCHANGED grad_enabled
    /\ EvaluateOnly

\* user code: torch.set_grad_enabled(mode), inside or outside a block
SetGradEnabled(mode) ==
    /\ grad_enabled' = mode
    /\ ctx' = Touch(ctx)
    /\ lastExit' = NoExit
    /\ UNCHANGED training
    /\ EvaluateOnly

\* faulty variant: only one of the models is switched
EvalOneModel(t, models) ==
    LET first == CHOOSE m \in models : TRUE
    IN  [m \in Models |-> IF m = first THEN FALSE ELSE t[m]]

\* for x in models: x.eval()
EvalModels(t, models) ==
    [m \in Models |-> IF m \in models THEN FALSE ELSE t[m]]

\* evaluate(): assert models fails, nothing is entered
EvaluateNoModels ==
    /\ lastExit' = [NoExit EXCEPT !.how = "refused", !.exc = "AssertionError"]
    /\ UNCHANGED <<training, grad_enabled, ctx>>
    /\ EvaluateOnly

\* with evaluate(*models): up to the yield
EvaluateEnter(models) ==
    /\ models # {}
    /\ Len(ctx) < MaxDepth
    /\ training' = EvalModels(training, models)
    /\ ctx' = Append(ctx, [models |-> models,
                            prev |-> grad_enabled,
                            gradBefore |-> grad_enabled,
                            trainBefore |-> training,
                            touched |-> FALSE])
    /\ grad_enabled' = FALSE
    /\ lastExit' = NoExit
    /\ EvaluateOnly

\* faulty variant: try without finally, an exception skips the restoration
ExitGradNoFinally(c, raising) ==
    IF raising THEN grad_enabled ELSE c.prev

\* no_grad_context.__exit__ in the finally clause
ExitGrad(c, raising) == c.prev

\* faulty variant: the models are put back into training mode
ExitTrainingAll(c) == [m \in Models |-> IF m \in c.models THEN TRUE ELSE training[m]]

\* the exit path calls nothing on the models
ExitTraining(c) == training

\* try/finally has no except clause: what the body raised goes on
ExitException(raising) == IF raising THEN "BodyError" ELSE "none"

\* the block is left: the body returned (raising = FALSE) or raised
EvaluateExit(raising) ==
    /\ ctx # << >>
    /\ LET c == ctx[Len(ctx)] IN
        /\ grad_enabled' = ExitGrad(c, raising)
        /\ training' = ExitTraining(c)
        /\ lastExit' = [how |-> IF raising THEN "exception" ELSE "normal",
                         exc |-> ExitException(raising),
                         models |-> c.models,
                         gradBefore |-> c.gradBefore,
                         trainBefore |-> c.trainBefore,
                         touched |-> c.touched]
    /\ ctx' = SubSeq(ctx, 1, Len(ctx) - 1)
    /\ EvaluateOnly

DoModelTrain == \E m \in Models, mode \in BOOLEAN : ModelTrain(m, mode)

DoSetGradEnabled == \E mode \in BOOLEAN : SetGradEnabled(mode)

DoEvaluateEnter == \E models \in SUBSET Models : EvaluateEnter(models)

BodyReturns == EvaluateExit(FALSE)

BodyRaises == EvaluateExit(TRUE)

EvalNext ==
    \/ DoModelTrain
    \/ DoSetGradEnabled
    \/ EvaluateNoModels
    \/ DoEvaluateEnter
    \/ BodyReturns
    \/ BodyRaises

\* --------------------------------------------------------------- learn
\* loss.item(): a finite number, or one of the three non-finite floats
LossValues ==
    [kind : {"finite"}, v : {0, 1}] \cup [kind : {"nan", "inf", "-inf"}, v : {0}]

\* the gradients that loss.backward() may add to the parameter
LossGrads == {0 - 1, 1}

StepOutputs == {"out1", "out2"}

NoLoss == [value |-> [kind |-> "finite", v |-> 0], g |-> 0]

LearnInit ==
    /\ lpc = "idle"
    /\ ltraining \in BOOLEAN
    /\ lgrad \in {0, 1}
    /\ lparam = 0
    /\ lout = "none"
    /\ lloss = NoLoss
    /\ llog = << >>
    /\ lresult = None
    /\ lbefore = [param |-> 0, grad |-> 0]
    /\ lcalls = 0

LearnIdle ==
    /\ lpc = "idle"
    /\ ltraining = FALSE
    /\ lgrad = 0
    /\ lparam = 0
    /\ lout = "none"
    /\ lloss = NoLoss
    /\ llog = << >>
    /\ lresult = None
    /\ lbefore = [param |-> 0, grad |-> 0]
    /\ lcalls = 0

\* faulty variant: only NaN is rejected (loss_value == loss_value)
IsNotNan(x) == x.kind # "nan"

\* math.isfinite
IsFinite(x) == x.kind = "finite"

\* learn(...) is called: model.train(); optimizer.zero_grad()
LearnCall ==
    /\ lpc \in {"idle", "returned"}
    /\ lcalls < MaxLearn
    /\ lcalls' = lcalls + 1
    /\ lbefore' = [param |-> lparam, grad |-> lgrad]
    /\ ltraining' = TRUE
    /\ lgrad' = 0
    /\ llog' = <<"train", "zero_grad">>
    /\ lresult' = None
    /\ lout' = "none"
    /\ lloss' = NoLoss
    /\ lpc' = "forward"
    /\ UNCHANGED lparam
    /\ LearnOnly

\* out = step(batch); loss = loss_fn(out) or loss_fn(*out); loss.item()
LearnForward(out, star, value, g) ==
    /\ lpc = "forward"
    /\ lout' = out
    /\ lloss' = [value |-> value, g |-> g]
    /\ llog' = llog \o <<"step", IF star THEN "loss_fn(*out)" ELSE "loss_fn(out)",
                          "item">>
    /\ lpc' = "check"
    /\ UNCHANGED <<ltraining, lgrad, lparam, lresult, lbefore, lcalls>>
    /\ LearnOnly

\* the finite branch: loss.backward(); optimizer.step()
LearnOptimize ==
    /\ lpc = "check"
    /\ IsFinite(lloss.value)
    /\ lgrad' = lgrad + lloss.g
    /\ lparam' = lparam - (lgrad + lloss.g)
    /\ llog' = llog \o <<"backward", "optimizer.step">>
    /\ lpc' = "return"
    /\ UNCHANGED <<ltraining, lout, lloss, lresult, lbefore, lcalls>>
    /\ LearnOnly

\* the other branch: warnings.warn(..., RuntimeWarning)
LearnWarn ==
    /\ lpc = "check"
    /\ ~IsFinite(lloss.value)
    /\ llog' = Append(llog, "RuntimeWarning")
    /\ lpc' = "return"
    /\ UNCHANGED <<ltraining, lgrad, lparam, lout, lloss, lresult, lbefore, lcalls>>
    /\ LearnOnly

\* return loss_value, out
LearnReturn ==
    /\ lpc = "return"
    /\ lresult' = Some(<<lloss.value, lout>>)
    /\ lpc' = "returned"
    /\ UNCHANGED <<ltraining, lgrad, lparam, lout, lloss, llog, lbefore, lcalls>>
    /\ LearnOnly

DoLearnForward ==
    \E out \in StepOutputs, star \in BOOLEAN, value \in LossValues, g \in LossGrads :
        LearnForward(out, star, value, g)

LearnNext ==
    \/ LearnCall
    \/ DoLearnForward
    \/ LearnOptimize
    \/ LearnWarn
    \/ LearnReturn

\* ------------------------------------------------- optimizer wrapper
\* the exceptions a block body may raise
Exceptions == {"ZeroDivisionError", "KeyError"}

NoBlock == [how |-> "none", raised |-> "none", exc |-> "none", gradAtExit |-> 0]

OptimInit ==
    /\ oparam = 0
    /\ ograd \in (0 - 1)..1
    /\ oin = FALSE
    /\ osteps = 0
    /\ oentry = [param |-> 0, steps |-> 0]
    /\ olast = NoBlock
    /\ oblocks = 0
    /\ pparam = 0
    /\ pgrad \in (0 - 1)..1
    /\ opc = "outside"

OptimIdle ==
    /\ oparam = 0
    /\ ograd = 0
    /\ oin = FALSE
    /\ osteps = 0
    /\ oentry = [param |-> 0, steps |-> 0]
    /\ olast = NoBlock
    /\ oblocks = 0
    /\ pparam = 0
    /\ pgrad = 0
    /\ opc = "outside"

\* the underlying optimizer's step(), with the learning rate as the unit
StepParam(param, grad) == param - grad

\* model.loss_fn().backward(); zero_model.loss_fn().backward(): the same
\* loss on identical models, so the same gradient is accumulated in both;
\* called before the blocks and in a block body after optimizer.zero_grad()
Backward(g) ==
    /\ opc \in {"outside", "body"}
    /\ ograd + g \in (0 - MaxGrad)..MaxGrad
    /\ pgrad + g \in (0 - MaxGrad)..MaxGrad
    /\ ograd' = ograd + g
    /\ pgrad' = pgrad + g
    /\ UNCHANGED <<oparam, oin, osteps, oentry, olast, oblocks, pparam, opc>>
    /\ OptimOnly

\* faulty variant: entering the block leaves the gradients as they are
EnterKeepsGrad ==
    /\ ~oin
    /\ opc = "outside"
    /\ oblocks < MaxBlocks
    /\ oblocks' = oblocks + 1
    /\ oin' = TRUE
    /\ oentry' = [param |-> oparam, steps |-> osteps]
    /\ olast' = NoBlock
    /\ opc' = "entered"
    /\ UNCHANGED <<oparam, ograd, osteps, pparam, pgrad>>
    /\ OptimOnly

\* with zero_optimizer: the gradients are zeroed on entry
ZeroOptimizerEnter ==
    /\ ~oin
    /\ opc = "outside"
    /\ oblocks < MaxBlocks
    /\ oblocks' = oblocks + 1
    /\ oin' = TRUE
    /\ ograd' = 0
    /\ oentry' = [param |-> oparam, steps |-> osteps]
    /\ olast' = NoBlock
    /\ opc' = "entered"
    /\ UNCHANGED <<oparam, osteps, pparam, pgrad>>
    /\ OptimOnly

\* body(): optimizer.zero_grad() on the plain optimizer, first in the block
PlainZeroGrad ==
    /\ opc = "entered"
    /\ pgrad' = 0
    /\ opc' = "body"
    /\ UNCHANGED <<oparam, ograd, oin, osteps, oentry, olast, oblocks, pparam>>
    /\ OptimOnly

\* optimizer.step() on the plain optimizer, right after the block
PlainStep ==
    /\ opc = "exited"
    /\ pparam' = StepParam(pparam, pgrad)
    /\ opc' = "outside"
    /\ UNCHANGED <<oparam, ograd, oin, osteps, oentry, olast, oblocks, pgrad>>
    /\ OptimOnly

\* faulty variant: step() is called on every exit
ExitStepsAlways(failed) == TRUE

\* __exit__: step() is called only if the body raised nothing
ExitSteps(failed) == ~failed

\* faulty variant: __exit__ swallows the exception
ExitSwallows(e) == "none"

\* __exit__: the exception of the body goes on to the caller
ExitPropagates(e) == e

\* the block is left, the body having raised e ("none": it returned, which
\* it does after optimizer.zero_grad() only)
ZeroOptimizerExit(e) ==
    /\ oin
    /\ e = "none" => opc = "body"
    /\ oin' = FALSE
    /\ opc' = IF e = "none" THEN "exited" ELSE "outside"
    /\ IF ExitSteps(e # "none")
       THEN /\ oparam' = StepParam(oparam, ograd)
            /\ osteps' = osteps + 1
       ELSE UNCHANGED <<oparam, osteps>>
    /\ olast' = [how |-> IF e = "none" THEN "normal" ELSE "exception",
                  raised |-> e,
                  exc |-> ExitPropagates(e),
                  gradAtExit |-> ograd]
    /\ UNCHANGED <<ograd, oentry, oblocks, pparam, pgrad>>
    /\ OptimOnly

DoBackward == \E g \in {0 - 1, 1} : Backward(g)

OptimBodyReturns == ZeroOptimizerExit("none")

OptimBodyRaises == \E e \in Exceptions : ZeroOptimizerExit(e)

OptimNext ==
    \/ DoBackward
    \/ ZeroOptimizerEnter
    \/ PlainZeroGrad
    \/ PlainStep
    \/ OptimBodyReturns
    \/ OptimBodyRaises

\* ------------------------------------------------------ specifications
Init == TrackerInit /\ EvalIdle /\ LearnIdle /\ OptimIdle

Next == TrackerNext

Spec == Init /\ [][Next]_vars

InitEvaluate == EvalInit /\ TrackerIdle /\ LearnIdle /\ OptimIdle

SpecEvaluate == InitEvaluate /\ [][EvalNext]_vars

InitLearn == LearnInit /\ TrackerIdle /\ EvalIdle /\ OptimIdle

SpecLearn == InitLearn /\ [][LearnNext]_vars

InitOptim == OptimInit /\ TrackerIdle /\ EvalIdle /\ LearnIdle

SpecOptim == InitOptim /\ [][OptimNext]_vars

\* ------------------------------------------------- reading the history
LastCall == hist[Len(hist)]

LastIsUpdate == hist # << >> /\ LastCall.op = "update"

\* the last call is an update and no update was made before it since
\* construction or the most recent reset
IsFirstUpdate ==
    /\ LastIsUpdate
    /\ \A i \in 1..(Len(hist) - 1) :
          hist[i].op = "update" =>
              \E j \in (i + 1)..(Len(hist) - 1) : hist[j].op = "reset"

RECURSIVE TrailingBad(_)
\* the number of consecutive non-improving updates at the end of h
TrailingBad(h) ==
    IF h = << >> THEN 0
    ELSE LET e == h[Len(h)] IN
         IF e.op = "update" /\ ~e.improved
         THEN 1 + TrailingBad(SubSeq(h, 1, Len(h) - 1))
         ELSE 0

\* ------------------------------------------------------------- claims

\* C1: the first update after construction or after reset() leaves the
\* tracker in the success state (success true, fail false) with best_score
\* equal to the score passed, for every patience, min_delta and score.
C1_FirstUpdateSucceeds ==
    IsFirstUpdate =>
        /\ success
        /\ ~fail
        /\ best_score = Some(LastCall.score)

\* a first update after a reset, with a score below the best score that the
\* reset dropped, made while the tracker had failed before the reset
C1_Witness ==
    /\ IsFirstUpdate
    /\ Len(hist) >= 3
    /\ hist[Len(hist) - 1].op = "reset"
    /\ hist[Len(hist) - 1].bestBefore # None
    /\ LastCall.score < hist[Len(hist) - 1].bestBefore[1]

\* C2: with patience p set, after a call sequence ending with an update,
\* fail is true exactly when the number of consecutive non-improving updates
\* (since the last improving update, forget_bad_updates, reset or
\* construction) is greater than p.
C2_FailIffRunExceedsPatience ==
    (patience # None /\ LastIsUpdate) =>
        (fail <=> TrailingBad(hist) > patience[1])

\* p + 1 bad updates in a row after a forget_bad_updates, with p >= 1: a fail
C2_Witness ==
    /\ patience # None
    /\ patience[1] >= 1
    /\ LastIsUpdate
    /\ TrailingBad(hist) = patience[1] + 1
    /\ Len(hist) > TrailingBad(hist)
    /\ hist[Len(hist) - TrailingBad(hist)].op = "forget"
    /\ fail

\* C3: an update whose score exceeds best_score + min_delta (best_score set)
\* resets the bad counter to 0 whatever it was, sets the status to success
\* and best_score to the score.
C3_ImprovementResetsCounter ==
    (/\ LastIsUpdate
     /\ LastCall.bestBefore # None
     /\ LastCall.score > LastCall.bestBefore[1] + min_delta) =>
        /\ bad_counter = 0
        /\ success
        /\ best_score = Some(LastCall.score)

\* an improving update made while the tracker was in the fail state
C3_Witness ==
    /\ LastIsUpdate
    /\ LastCall.bestBefore # None
    /\ LastCall.score > LastCall.bestBefore[1] + min_delta
    /\ LastCall.statusBefore = FAIL
    /\ LastCall.badBefore >= 2
    /\ bad_counter = 0

\* C4: fail is true only if patience is set and bad_counter > patience, and
\* bad_counter is never negative.
C4_FailOnlyBeyondPatience ==
    /\ fail => (patience # None /\ bad_counter > patience[1])
    /\ bad_counter >= 0

\* a failed tracker
C4_Witness ==
    /\ fail
    /\ patience # None
    /\ bad_counter = patience[1] + 2

\* C10: a tracker constructed with patience None is never in the fail state.
C10_NoPatienceNeverFails ==
    patience = None => ~fail

\* patience None and more bad updates in a row than any patience modelled
C10_Witness ==
    /\ patience = None
    /\ TrailingBad(hist) > MaxPatience
    /\ bad_counter > MaxPatience

\* C11: forget_bad_updates(), called in any state, sets the bad counter to 0
\* and the status to neutral and leaves best_score, patience and min_delta
\* as they were; a non-improving update leaves best_score as it was too, so
\* entering or staying in the fail state never changes the best score.
C11_ForgetKeepsBestScore ==
    /\ (hist # << >> /\ LastCall.op = "forget") =>
            /\ bad_counter = 0
            /\ status = NEUTRAL
            /\ best_score = LastCall.bestBefore
            /\ patience = LastCall.patienceBefore
            /\ min_delta = LastCall.deltaBefore
    /\ (/\ LastIsUpdate
        /\ LastCall.bestBefore # None
        /\ ~(LastCall.score > LastCall.bestBefore[1] + min_delta)) =>
            best_score = LastCall.bestBefore
    /\ fail => (LastIsUpdate /\ best_score = LastCall.bestBefore)

\* forget_bad_updates called on a failed tracker that holds a best score
C11_Witness ==
    /\ hist # << >>
    /\ LastCall.op = "forget"
    /\ LastCall.statusBefore = FAIL
    /\ LastCall.badBefore >= 2
    /\ best_score # None
    /\ best_score[1] > 0

\* the position of the most recent reset in hist, 0 if there is none
LastResetAt ==
    IF \E i \in 1..Len(hist) : hist[i].op = "reset"
    THEN CHOOSE i \in 1..Len(hist) :
             /\ hist[i].op = "reset"
             /\ \A j \in (i + 1)..Len(hist) : hist[j].op # "reset"
    ELSE 0

\* the calls made since the most recent reset (all of them if there is none)
SinceReset == SubSeq(hist, LastResetAt + 1, Len(hist))

\* C12: reset() resets everything: from any state it yields best_score None,
\* status neutral and bad counter 0 with patience and min_delta unchanged,
\* and after every sequence of calls that follows the tracker is in the
\* state a freshly constructed tracker with the same patience and min_delta
\* is in after the same calls.
C12_ResetIsFresh ==
    LastResetAt > 0 =>
        /\ patience = hist[LastResetAt].patienceBefore
        /\ min_delta = hist[LastResetAt].deltaBefore
        /\ [best_score |-> best_score, status |-> status,
            bad_counter |-> bad_counter] = RunFresh(SinceReset)
        /\ LastCall.op = "reset" =>
                (best_score = None /\ status = NEUTRAL /\ bad_counter = 0)

\* a failed tracker was reset, and two calls have followed the reset
C12_Witness ==
    /\ LastResetAt > 0
    /\ hist[LastResetAt].statusBefore = FAIL
    /\ hist[LastResetAt].bestBefore # None
    /\ Len(SinceReset) >= 2
    /\ bad_counter = 1

\* the scores passed to update since construction or the most recent reset
ScoresSinceReset ==
    {SinceReset[i].score : i \in {j \in 1..Len(SinceReset) : SinceReset[j].op = "update"}}

Greatest(S) == CHOOSE x \in S : \A y \in S : y <= x

\* C13 as stated: for every min_delta, best_score is the greatest score passed
\* to update since construction or the last reset, and None exactly when no
\* update was made since.
C13_BestIsGreatestScore ==
    IF ScoresSinceReset = {}
    THEN best_score = None
    ELSE best_score = Some(Greatest(ScoresSinceReset))

\* C13 amended: best_score is None exactly when no update was made since
\* construction or the last reset; otherwise it is one of the scores passed
\* since then, and with min_delta = 0 it is the greatest of them.
C13_BestIsGreatestForZeroDelta ==
    IF ScoresSinceReset = {}
    THEN best_score = None
    ELSE /\ best_score # None
         /\ best_score[1] \in ScoresSinceReset
         /\ min_delta = 0 => best_score = Some(Greatest(ScoresSinceReset))

\* min_delta 0: after a reset, a rising score, a forget_bad_updates and a
\* lower score, the best score is the greatest one
C13_Witness ==
    /\ min_delta = 0
    /\ LastResetAt > 0
    /\ Cardinality(ScoresSinceReset) >= 2
    /\ \E i \in 1..Len(SinceReset) : SinceReset[i].op = "forget"
    /\ LastIsUpdate
    /\ best_score = Some(Greatest(ScoresSinceReset))
    /\ LastCall.score < best_score[1]

\* C15: the improvement test is strict: with best_score set, update(score) is
\* a success exactly when score > best_score + min_delta; a score equal to
\* best_score + min_delta is a non-improving update, which increments the bad
\* counter, sets no success and keeps the best score.
C15_ImprovementIsStrict ==
    (LastIsUpdate /\ LastCall.bestBefore # None) =>
        /\ success <=> (LastCall.score > LastCall.bestBefore[1] + min_delta)
        /\ (LastCall.score = LastCall.bestBefore[1] + min_delta) =>
                /\ bad_counter = LastCall.badBefore + 1
                /\ ~success
                /\ best_score = LastCall.bestBefore

\* min_delta 0 and an update with the best score itself, counted as bad
C15_Witness ==
    /\ LastIsUpdate
    /\ LastCall.bestBefore # None
    /\ min_delta = 0
    /\ LastCall.score = LastCall.bestBefore[1]
    /\ LastCall.statusBefore = SUCCESS
    /\ bad_counter = 1
    /\ ~success

\* --------------------------------------------- claims on the optimizer
\* C5: a `with zero_optimizer:` block that exits normally applies the
\* underlying step exactly once, at exit; a block that raises applies no
\* step (the parameter keeps its value of entry) and the exception raised
\* reaches the caller unchanged.
C5_StepOnlyOnNormalExit ==
    /\ olast.how = "normal" =>
            /\ osteps = oentry.steps + 1
            /\ oparam = StepParam(oentry.param, olast.gradAtExit)
            /\ olast.exc = "none"
    /\ olast.how = "exception" =>
            /\ osteps = oentry.steps
            /\ oparam = oentry.param
            /\ olast.exc = olast.raised
            /\ olast.exc \in Exceptions

\* a block that raised with a gradient pending, after a block that stepped
C5_Witness ==
    /\ olast.how = "exception"
    /\ olast.gradAtExit # 0
    /\ olast.exc = "ZeroDivisionError"
    /\ oentry.steps = 1
    /\ oentry.param # 0

Count(log, what) == Cardinality({i \in 1..Len(log) : log[i] = what})

\* C6: learn performs loss.backward() and optimizer.step() if and only if
\* the loss value is finite: once each and without a warning when it is;
\* not at all, with one RuntimeWarning, when it is NaN or infinite; and it
\* returns (loss_value, step_output) either way.
C6_OptimizeIffFinite ==
    lpc = "returned" =>
        /\ lresult = Some(<<lloss.value, lout>>)
        /\ IF lloss.value.kind = "finite"
           THEN /\ Count(llog, "backward") = 1
                /\ Count(llog, "optimizer.step") = 1
                /\ Count(llog, "RuntimeWarning") = 0
                /\ lgrad = lloss.g
                /\ lparam = lbefore.param - lloss.g
           ELSE /\ Count(llog, "backward") = 0
                /\ Count(llog, "optimizer.step") = 0
                /\ Count(llog, "RuntimeWarning") = 1
                /\ lgrad = 0
                /\ lparam = lbefore.param

\* learn has returned an infinite loss, on its second call
C6_Witness ==
    /\ lpc = "returned"
    /\ lloss.value.kind = "-inf"
    /\ lcalls = 2
    /\ lbefore.param # 0
    /\ lparam = lbefore.param
    /\ lresult = Some(<<lloss.value, lout>>)

\* --------------------------------------------------- claims on evaluate
\* C7: when an evaluate(...) block is left, by the end of the body or by an
\* exception raised in it, the gradient-enabled flag has the value it had
\* just before the block was entered, whatever that value was, and the
\* exception raised in the body reaches the caller.
C7_GradFlagRestored ==
    lastExit.how \in {"normal", "exception"} =>
        /\ grad_enabled = lastExit.gradBefore
        /\ (lastExit.how = "exception") <=> (lastExit.exc = "BodyError")

\* a block entered with gradients enabled, whose body ran with them off and
\* raised
C7_Witness ==
    /\ lastExit.how = "exception"
    /\ lastExit.exc = "BodyError"
    /\ lastExit.gradBefore = TRUE
    /\ ~lastExit.touched
    /\ grad_enabled

\* C8: inside an evaluate(m1, ..., mk) block, whatever the training flags and
\* the gradient-enabled flag were before, every model passed is in
\* evaluation mode and gradient computation is disabled (as long as the body
\* itself switches no mode).
C8_InsideEvalModeNoGrad ==
    \A i \in 1..Len(ctx) :
        ~ctx[i].touched =>
            /\ ~grad_enabled
            /\ \A m \in ctx[i].models : ~training[m]

\* inside evaluate(a, b), entered with both models training and gradients on
C8_Witness ==
    /\ Len(ctx) = 1
    /\ ctx[1].models = Models
    /\ \A m \in Models : ctx[1].trainBefore[m]
    /\ ctx[1].gradBefore
    /\ ~ctx[1].touched

\* C9 as stated: when an evaluate block is left, each model's training flag
\* has the value it had before the block was entered.
C9_TrainingRestored ==
    lastExit.how \in {"normal", "exception"} =>
        \A m \in lastExit.models : training[m] = lastExit.trainBefore[m]

\* C9 amended: leaving an evaluate block restores no training flag: the exit
\* changes none, so after a block whose body switched no mode every model
\* passed is in evaluation mode, on the normal and on the exceptional path.
C9_TrainingLeftInEvalMode ==
    (lastExit.how \in {"normal", "exception"} /\ ~lastExit.touched) =>
        \A m \in lastExit.models : ~training[m]

\* a block left by an exception, entered with a model in training mode
C9_Witness ==
    /\ lastExit.how = "exception"
    /\ ~lastExit.touched
    /\ \E m \in lastExit.models : lastExit.trainBefore[m] /\ ~training[m]

====
